---- MODULE Spec2Model ----
(***************************************************************************)
(* llm_cost_exporter: the polling loop of main.rs, the metrics registry    *)
(* (LLMMetrics over three prometheus GaugeVecs), the /metrics scrape, the  *)
(* bedrock client construction and the per-call tracker of tracker.rs.     *)
(*                                                                         *)
(* Money is counted in units of 10^-7 USD so that the rate table of        *)
(* calculate_openai_cost stays integral; token and request counts are      *)
(* naturals.  Time is counted in seconds.                                  *)
(***************************************************************************)
EXTENDS Naturals, Sequences, FiniteSets, TLC

VARIABLES
    env,        \* the process environment: which API keys are set
    config,     \* BedrockConfig.assume_role (enabled, role_arn, session_name)
    pc,         \* position of main
    cur,        \* index of the provider the loop body is at (1..3)
    usage,      \* the `usage` binding of the current `if let Ok(usage)`
    fld,        \* index of the gauge write LLMMetrics::update is at (1..4)
    metrics,    \* LLMMetrics: the children of the cost, tokens, requests GaugeVecs
    registered, \* names of the collectors registered in the Registry
    client,     \* the bedrock client built at startup, and its credentials
    sts,        \* the response of the AssumeRole exchange in flight
    exchanges,  \* number of AssumeRole exchanges sent so far
    now,        \* the clock
    deadline,   \* next deadline of the tokio interval
    server,     \* "down" | "up": the spawned warp server
    readFams,   \* families the gather() in progress has collected
    gathered,   \* what that gather() collected
    res,        \* per provider: outcome of get_usage in the current tick
    calls,      \* per provider: get_usage invocations in the current tick
    lastOk,     \* per provider: the usage of its last Ok get_usage, if any
    scrapes,    \* number of GET /metrics requests begun
    ticks,      \* number of ticks begun
    latest,     \* per key: the usage of the most recent LLMMetrics::update call
    mainErr,    \* "" while main runs, else the error main returned
    lastOp,     \* the last call made through the library API that has returned
    track,      \* the track_openai_call in flight: where it is, its model, its result
    upd,        \* the LLMMetrics::update called through the API that is in flight
    apiCalls    \* number of update and track_openai_call calls begun through the API

vars == << env, config, pc, cur, usage, fld, metrics, registered, client, sts,
           exchanges, now, deadline, server, readFams, gathered, res, calls,
           lastOk, scrapes, ticks, latest,
           mainErr, lastOp, track, upd, apiCalls >>

-----------------------------------------------------------------------------
(* Bounds of the model *)

MaxTicks == 2
MaxTime == 600
MaxScrapes == 1
MaxCalls == 3
ClockStepSecs == 300

(* Program constants *)

PeriodSecs == 300

(* Validity of an assumed-role lease, as the identity service answers it *)
LeaseSecs == 450

-----------------------------------------------------------------------------
(* Data *)

NoUsage == [none |-> TRUE]

\* LLMUsage::default()
DefaultUsage ==
    [cost_usd |-> 0, prompt_tokens |-> 0, completion_tokens |-> 0, request_count |-> 0]

\* The usages a provider may answer: the default, and one with distinct fields
Usages ==
    { DefaultUsage,
      [cost_usd |-> 4, prompt_tokens |-> 1, completion_tokens |-> 2, request_count |-> 3] }

\* Outcomes of LLMMonitor::get_usage: Result<LLMUsage, MonitorError>.  The
\* loop body is written against the trait, so every outcome of its signature
\* is explored; the three monitors of main.rs 59-78 answer the one outcome
\* Ok(LLMUsage::default()), which is among them.
UsageResults ==
    { [ok |-> FALSE, usage |-> NoUsage] } \cup { [ok |-> TRUE, usage |-> u] : u \in Usages }

\* The providers of the loop body, in the order it polls them
Configured ==
    << [provider |-> "openai", model |-> "gpt-4"],
       [provider |-> "bedrock", model |-> "claude-2"],
       [provider |-> "anthropic", model |-> "claude-2"] >>

Providers == { Configured[i].provider : i \in 1..Len(Configured) }

ConfiguredPairs == { << Configured[i].provider, Configured[i].model >> : i \in 1..Len(Configured) }

\* Keys the library API is exercised with: LLMMetrics::update takes any
\* provider and model
ApiKeys == { "openai", "bedrock" } \X { "gpt-4", "claude-2" }

\* Models track_openai_call is exercised with: the two of the rate table and
\* one that is not in it
TrackModels == { "gpt-4", "gpt-3.5-turbo", "davinci" }

FamilyNames == { "cost", "tokens", "requests" }

NoMetrics == [cost |-> {}, tokens |-> {}, requests |-> {}]

\* No LLMMetrics::update called through the API is in flight
NoUpd ==
    [pc |-> "idle", provider |-> "", model |-> "", usage |-> NoUsage, prev |-> NoUsage,
     fld |-> 1]

\* No track_openai_call is in flight
NoTrack ==
    [pc |-> "idle", model |-> "",
     result |-> [ok |-> FALSE, prompt_tokens |-> 0, completion_tokens |-> 0], fld |-> 1]

-----------------------------------------------------------------------------
(* GaugeVec: a set of children, each a label tuple with a value *)

Child(labels, v) == [labels |-> labels, value |-> v]

HasChild(vec, labels) == \E c \in vec : c.labels = labels

\* GaugeVec::with_label_values: the child with these labels, created at 0 when
\* there is none
WithLabelValues(vec, labels) ==
    IF HasChild(vec, labels) THEN vec ELSE vec \cup { Child(labels, 0) }

\* SetGauge with a fault: the child is looked up by the labels after the
\* provider, so the same model under another provider is overwritten
SetGaugeByModel(vec, labels, v) ==
    { IF Tail(c.labels) = Tail(labels) THEN Child(labels, v) ELSE c : c \in vec }

\* Gauge::set on the child with these labels
SetGauge(vec, labels, v) ==
    { IF c.labels = labels THEN Child(labels, v) ELSE c : c \in vec }

\* Gauge::inc_by / Gauge::inc on the child with these labels
IncGauge(vec, labels, d) ==
    { IF c.labels = labels THEN Child(labels, c.value + d) ELSE c : c \in vec }

\* The values held under a label tuple (a set: one value per child)
ValuesAt(vec, labels) == { c.value : c \in { d \in vec : d.labels = labels } }

ChildrenAt(vec, labels) == { c \in vec : c.labels = labels }

-----------------------------------------------------------------------------
(* LLMMetrics *)

\* The three collectors LLMMetrics::new registers
MetricNames == { "llm_cost_usd", "llm_tokens", "llm_requests" }

\* UpdateWrites with a fault: the completion series is written with the
\* prompt token count
UpdateWritesSwapped(provider, model, u) ==
    << [vec |-> "cost", labels |-> << provider, model >>, value |-> u.cost_usd],
       [vec |-> "tokens", labels |-> << provider, model, "prompt" >>,
        value |-> u.prompt_tokens],
       [vec |-> "tokens", labels |-> << provider, model, "completion" >>,
        value |-> u.prompt_tokens],
       [vec |-> "requests", labels |-> << provider, model >>, value |-> u.request_count] >>

\* LLMMetrics::update as the sequence of its four gauge writes
UpdateWrites(provider, model, u) ==
    << [vec |-> "cost", labels |-> << provider, model >>, value |-> u.cost_usd],
       [vec |-> "tokens", labels |-> << provider, model, "prompt" >>,
        value |-> u.prompt_tokens],
       [vec |-> "tokens", labels |-> << provider, model, "completion" >>,
        value |-> u.completion_tokens],
       [vec |-> "requests", labels |-> << provider, model >>, value |-> u.request_count] >>

\* One `with_label_values(...)` of update
ApplyWithLabel(m, w) == [m EXCEPT ![w.vec] = WithLabelValues(m[w.vec], w.labels)]

\* One `.set(...)` of update
ApplySet(m, w) == [m EXCEPT ![w.vec] = SetGauge(m[w.vec], w.labels, w.value)]

\* One `.inc_by(...)` / `.inc(...)` of the tracker
ApplyInc(m, w) == [m EXCEPT ![w.vec] = IncGauge(m[w.vec], w.labels, w.value)]

\* The values the registry m holds for the key (provider, model), per series
SeriesOf(m, provider, model) ==
    [cost |-> ValuesAt(m.cost, << provider, model >>),
     prompt |-> ValuesAt(m.tokens, << provider, model, "prompt" >>),
     completion |-> ValuesAt(m.tokens, << provider, model, "completion" >>),
     requests |-> ValuesAt(m.requests, << provider, model >>)]

\* The key has no series at all
Absent(m, provider, model) ==
    SeriesOf(m, provider, model) =
        [cost |-> {}, prompt |-> {}, completion |-> {}, requests |-> {}]

\* The key has exactly the series of usage u
Holds(m, provider, model, u) ==
    SeriesOf(m, provider, model) =
        [cost |-> { u.cost_usd }, prompt |-> { u.prompt_tokens },
         completion |-> { u.completion_tokens }, requests |-> { u.request_count }]

\* Every child of the registry m whose provider label is p
GaugesOf(m, p) ==
    [f \in FamilyNames |-> { c \in m[f] : c.labels[1] = p }]

\* The (provider, model) label pairs the registry m has series under
LabelPairs(m) ==
    { << c.labels[1], c.labels[2] >> : c \in m.cost \cup m.tokens \cup m.requests }

-----------------------------------------------------------------------------
(* create_bedrock_client *)

NoClient == [kind |-> "none", has_token |-> FALSE, has_expiry |-> FALSE, expires_at |-> 0]

\* Client::new(&shared_config): the ambient default credentials
DefaultClient ==
    [kind |-> "default", has_token |-> FALSE, has_expiry |-> FALSE, expires_at |-> 0]

NoSts ==
    [ok |-> FALSE, credentials |-> FALSE, access_key_id |-> FALSE,
     secret_access_key |-> FALSE, session_token |-> FALSE, expiration |-> FALSE,
     expires_at |-> 0]

\* An AssumeRole answer at time t; each flag says whether the field is present
StsAnswer(ok, creds, ak, sk, tok, exp, t) ==
    [ok |-> ok, credentials |-> creds, access_key_id |-> ak, secret_access_key |-> sk,
     session_token |-> tok, expiration |-> exp,
     expires_at |-> IF exp THEN t + LeaseSecs ELSE 0]

\* What the identity service may answer at time t: a failure, a complete lease,
\* and a lease with exactly one of its parts missing
StsResponses(t) ==
    { StsAnswer(FALSE, FALSE, FALSE, FALSE, FALSE, FALSE, t),
      StsAnswer(TRUE, TRUE, TRUE, TRUE, TRUE, TRUE, t),
      StsAnswer(TRUE, FALSE, FALSE, FALSE, FALSE, FALSE, t),
      StsAnswer(TRUE, TRUE, FALSE, TRUE, TRUE, TRUE, t),
      StsAnswer(TRUE, TRUE, TRUE, FALSE, TRUE, TRUE, t),
      StsAnswer(TRUE, TRUE, TRUE, TRUE, FALSE, TRUE, t),
      StsAnswer(TRUE, TRUE, TRUE, TRUE, TRUE, FALSE, t) }

ClientOk(c) == [err |-> "", client |-> c]

ClientErr(msg) == [err |-> msg, client |-> NoClient]

\* The enabled branch of create_bedrock_client, from the answer of send() on
AssumedRoleClient(r) ==
    IF ~r.ok THEN ClientErr("Configuration error: AssumeRole failed")
    ELSE IF ~r.credentials THEN ClientErr("Configuration error: No credentials in STS response")
    ELSE IF ~r.access_key_id THEN ClientErr("Configuration error: No access key in credentials")
    ELSE IF ~r.secret_access_key THEN ClientErr("Configuration error: No secret key in credentials")
    ELSE ClientOk([kind |-> "assumed-role", has_token |-> r.session_token,
                   has_expiry |-> r.expiration, expires_at |-> r.expires_at])

-----------------------------------------------------------------------------
(* main *)

\* Polled with a fault: a failed poll is published as a zero usage
PolledOrDefault(r) ==
    IF r.ok THEN [update |-> TRUE, usage |-> r.usage]
    ELSE [update |-> TRUE, usage |-> DefaultUsage]

\* `if let Ok(usage) = monitor.get_usage().await`
Polled(r) ==
    IF r.ok THEN [update |-> TRUE, usage |-> r.usage]
    ELSE [update |-> FALSE, usage |-> NoUsage]

\* Where the loop body goes once it is done with provider i
AfterProvider(i) ==
    IF i < Len(Configured) THEN [pc |-> "call", cur |-> i + 1]
    ELSE [pc |-> "interval_tick", cur |-> 1]

\* OnErr with a fault: the failed provider is called again at once
OnErrRetry(i) == [pc |-> "call", cur |-> i]

\* OnErr with a fault: the error is propagated out of main with `?`
OnErrPropagate(i) == [pc |-> "exit", cur |-> i]

\* Where the loop body goes when get_usage of provider i returned Err: the
\* `if let` has no else, control falls through
OnErr(i) == AfterProvider(i)

Idle == [p \in Providers |-> "none"]

\* The BedrockConfig literal of main.rs 198-204
ShippedConfig == [enabled |-> FALSE, role_arn |-> "", session_name |-> ""]

\* Configurations create_bedrock_client may be handed: role assumption on or
\* off, the role and the session name empty or set
Configs ==
    [enabled : BOOLEAN, role_arn : {"", "arn:aws:iam::123456789012:role/llm"},
     session_name : {"", "llm-cost-exporter"}]

\* main is entered.  The environment may or may not hold each API key.
\* main.rs 198-204 writes the BedrockConfig literal with assume_role disabled;
\* create_bedrock_client takes the configuration as its parameter, and both
\* of its settings are explored.
Init ==
    /\ env \in [openai : BOOLEAN, anthropic : BOOLEAN]
    /\ config \in Configs
    /\ pc = "env_openai"
    /\ cur = 1
    /\ usage = NoUsage
    /\ fld = 1
    /\ metrics = NoMetrics
    /\ registered = {}
    /\ client = NoClient
    /\ sts = NoSts
    /\ exchanges = 0
    /\ now = 0
    /\ deadline = 0
    /\ server = "down"
    /\ readFams = {}
    /\ gathered = NoMetrics
    /\ res = Idle
    /\ calls = [p \in Providers |-> 0]
    /\ lastOk = [p \in Providers |-> NoUsage]
    /\ scrapes = 0
    /\ ticks = 0
    /\ latest = [k \in ApiKeys \cup ConfiguredPairs |-> NoUsage]
    /\ mainErr = ""
    /\ lastOp = [op |-> "none"]
    /\ track = NoTrack
    /\ upd = NoUpd
    /\ apiCalls = 0

\* main.rs 193-196
EnvOpenAI ==
    /\ pc = "env_openai"
    /\ IF env.openai
       THEN pc' = "create_bedrock_client" /\ mainErr' = mainErr
       ELSE pc' = "exit" /\ mainErr' = "Configuration error: OPENAI_API_KEY not set"
    /\ UNCHANGED << env, config, cur, usage, fld, metrics, registered, client, sts,
                    exchanges, now, deadline, server, readFams, gathered, res, calls,
                    lastOk, scrapes, ticks, latest, lastOp, track, upd, apiCalls >>

\* create_bedrock_client with a fault: a role that is set is assumed even
\* when role assumption is disabled
CreateBedrockClientByArn ==
    /\ pc = "create_bedrock_client"
    /\ IF config.enabled \/ config.role_arn # ""
       THEN pc' = "assume_role" /\ client' = client
       ELSE pc' = "env_anthropic" /\ client' = DefaultClient
    /\ UNCHANGED << env, config, cur, usage, fld, metrics, registered, sts, exchanges,
                    now, deadline, server, readFams, gathered, res, calls, lastOk,
                    scrapes, ticks, latest, mainErr, lastOp, track, upd, apiCalls >>

\* create_bedrock_client up to its branch; the disabled branch returns at once
CreateBedrockClient ==
    /\ pc = "create_bedrock_client"
    /\ IF config.enabled
       THEN pc' = "assume_role" /\ client' = client
       ELSE pc' = "env_anthropic" /\ client' = DefaultClient
    /\ UNCHANGED << env, config, cur, usage, fld, metrics, registered, sts, exchanges,
                    now, deadline, server, readFams, gathered, res, calls, lastOk,
                    scrapes, ticks, latest, mainErr, lastOp, track, upd, apiCalls >>

\* sts_client.assume_role()...send(): the exchange goes out
AssumeRoleSend ==
    /\ pc = "assume_role"
    /\ exchanges' = exchanges + 1
    /\ pc' = "assume_role_await"
    /\ UNCHANGED << env, config, cur, usage, fld, metrics, registered, client, sts,
                    now, deadline, server, readFams, gathered, res, calls, lastOk,
                    scrapes, ticks, latest, mainErr, lastOp, track, upd, apiCalls >>

\* The exchange answers; the rest of create_bedrock_client and the `?` of main
AssumeRoleReturn ==
    /\ pc = "assume_role_await"
    /\ \E r \in StsResponses(now) :
          /\ sts' = r
          /\ client' = AssumedRoleClient(r).client
          /\ mainErr' = AssumedRoleClient(r).err
          /\ pc' = IF AssumedRoleClient(r).err = "" THEN "env_anthropic" ELSE "exit"
    /\ UNCHANGED << env, config, cur, usage, fld, metrics, registered, exchanges, now,
                    deadline, server, readFams, gathered, res, calls, lastOk, scrapes,
                    ticks, latest, lastOp, track, upd, apiCalls >>

\* main.rs 210-213 with a fault: an absent key is taken as the empty string
EnvAnthropicLenient ==
    /\ pc = "env_anthropic"
    /\ pc' = "metrics_new"
    /\ mainErr' = mainErr
    /\ UNCHANGED << env, config, cur, usage, fld, metrics, registered, client, sts,
                    exchanges, now, deadline, server, readFams, gathered, res, calls,
                    lastOk, scrapes, ticks, latest, lastOp, track, upd, apiCalls >>

\* main.rs 210-213
EnvAnthropic ==
    /\ pc = "env_anthropic"
    /\ IF env.anthropic
       THEN pc' = "metrics_new" /\ mainErr' = mainErr
       ELSE pc' = "exit" /\ mainErr' = "Configuration error: ANTHROPIC_API_KEY not set"
    /\ UNCHANGED << env, config, cur, usage, fld, metrics, registered, client, sts,
                    exchanges, now, deadline, server, readFams, gathered, res, calls,
                    lastOk, scrapes, ticks, latest, lastOp, track, upd, apiCalls >>

\* The order in which LLMMetrics::new registers its three vectors
RegisterOrder == << "llm_cost_usd", "llm_tokens", "llm_requests" >>

\* Registry::register with a fault: a name already registered is accepted
RegisterLenient(reg, name) == [ok |-> TRUE, registered |-> reg \cup {name}]

\* Registry::register(collector): a name already registered is refused and
\* the registry is left as it was
Register(reg, name) ==
    IF name \in reg THEN [ok |-> FALSE, registered |-> reg]
    ELSE [ok |-> TRUE, registered |-> reg \cup {name}]

RECURSIVE RegisterAll(_, _)
\* register(..).unwrap() three times: the first refusal panics, and the
\* registrations made before it stay
RegisterAll(reg, i) ==
    IF i > Len(RegisterOrder) THEN [ok |-> TRUE, registered |-> reg]
    ELSE LET r == Register(reg, RegisterOrder[i])
         IN IF r.ok THEN RegisterAll(r.registered, i + 1) ELSE r

\* LLMMetrics::new(&registry): three fresh vectors, registered in order
NewMetrics(reg) == RegisterAll(reg, 1)

\* Registry::new and LLMMetrics::new
MetricsNew ==
    /\ pc = "metrics_new"
    /\ LET r == NewMetrics(registered)
       IN /\ registered' = r.registered
          /\ metrics' = IF r.ok THEN NoMetrics ELSE metrics
          /\ pc' = IF r.ok THEN "spawn_server" ELSE "panic"
    /\ UNCHANGED << env, config, cur, usage, fld, client, sts, exchanges, now,
                    deadline, server, readFams, gathered, res, calls, lastOk, scrapes,
                    ticks, latest, mainErr, lastOp, track, upd, apiCalls >>

\* tokio::spawn(run_metrics_server(registry)) and time::interval(300 s): the
\* first deadline of the interval is its creation time
SpawnServer ==
    /\ pc = "spawn_server"
    /\ server' = "up"
    /\ deadline' = now
    /\ pc' = "interval_tick"
    /\ UNCHANGED << env, config, cur, usage, fld, metrics, registered, client, sts,
                    exchanges, now, readFams, gathered, res, calls, lastOk, scrapes,
                    ticks, latest, mainErr, lastOp, track, upd, apiCalls >>

\* interval.tick().await completes: a tick begins, the next deadline is one
\* period after this one
IntervalTick ==
    /\ pc = "interval_tick"
    /\ now >= deadline
    /\ ticks < MaxTicks
    /\ deadline' = deadline + PeriodSecs
    /\ ticks' = ticks + 1
    /\ res' = Idle
    /\ calls' = [p \in Providers |-> 0]
    /\ cur' = 1
    /\ pc' = "call"
    /\ UNCHANGED << env, config, usage, fld, metrics, registered, client, sts,
                    exchanges, now, server, readFams, gathered, lastOk, scrapes,
                    latest, mainErr, lastOp, track, upd, apiCalls >>

\* monitor.get_usage() of provider i is invoked: the loop body is at it
CallProvider(i) ==
    /\ pc = "call"
    /\ cur = i
    /\ calls' = [calls EXCEPT ![Configured[i].provider] = @ + 1]
    /\ pc' = "await"
    /\ UNCHANGED << env, config, cur, usage, fld, metrics, registered, client, sts,
                    exchanges, now, deadline, server, readFams, gathered, res, lastOk,
                    scrapes, ticks, latest, mainErr, lastOp, track, upd, apiCalls >>

Call == \E i \in 1..Len(Configured) : CallProvider(i)

\* get_usage returns, and the `if let Ok(usage)` is decided
Return ==
    /\ pc = "await"
    /\ \E r \in UsageResults :
          LET p == Configured[cur].provider
              d == Polled(r)
          IN /\ res' = [res EXCEPT ![p] = IF r.ok THEN "ok" ELSE "err"]
             /\ lastOk' = IF r.ok THEN [lastOk EXCEPT ![p] = r.usage] ELSE lastOk
             /\ IF d.update
                THEN /\ usage' = d.usage
                     /\ fld' = 1
                     /\ pc' = "with_label"
                     /\ cur' = cur
                ELSE /\ usage' = NoUsage
                     /\ fld' = fld
                     /\ pc' = OnErr(cur).pc
                     /\ cur' = OnErr(cur).cur
    /\ UNCHANGED << env, config, metrics, registered, client, sts, exchanges, now,
                    deadline, server, readFams, gathered, calls, scrapes, ticks,
                    latest, mainErr, lastOp, track, upd, apiCalls >>

\* The write LLMMetrics::update is at
CurrentWrite == UpdateWrites(Configured[cur].provider, Configured[cur].model, usage)[fld]

\* update: with_label_values of its write number fld
UpdateWithLabel ==
    /\ pc = "with_label"
    /\ metrics' = ApplyWithLabel(metrics, CurrentWrite)
    /\ pc' = "set"
    /\ UNCHANGED << env, config, cur, usage, fld, registered, client, sts, exchanges,
                    now, deadline, server, readFams, gathered, res, calls, lastOk,
                    scrapes, ticks, latest, mainErr, lastOp, track, upd, apiCalls >>

\* update: set of its write number fld; after the last one the loop body moves on
UpdateSet ==
    /\ pc = "set"
    /\ metrics' = ApplySet(metrics, CurrentWrite)
    /\ IF fld < Len(UpdateWrites("", "", DefaultUsage))
       THEN fld' = fld + 1 /\ pc' = "with_label" /\ cur' = cur /\ usage' = usage
       ELSE /\ fld' = 1
            /\ usage' = NoUsage
            /\ pc' = AfterProvider(cur).pc
            /\ cur' = AfterProvider(cur).cur
    /\ UNCHANGED << env, config, registered, client, sts, exchanges, now, deadline,
                    server, readFams, gathered, res, calls, lastOk, scrapes, ticks,
                    latest, mainErr, lastOp, track, upd, apiCalls >>

\* Time passes while main is suspended at an await: load_defaults and the
\* AssumeRole exchange of create_bedrock_client, interval.tick() and get_usage
Advance ==
    /\ pc \in { "create_bedrock_client", "assume_role_await", "interval_tick", "await" }
    /\ now + ClockStepSecs <= MaxTime
    /\ now' = now + ClockStepSecs
    /\ UNCHANGED << env, config, pc, cur, usage, fld, metrics, registered, client, sts,
                    exchanges, deadline, server, readFams, gathered, res, calls,
                    lastOk, scrapes, ticks, latest, mainErr, lastOp, track, upd,
                    apiCalls >>

-----------------------------------------------------------------------------
(* run_metrics_server: one GET /metrics *)

\* A GET /metrics arrives and registry.gather() collects its first family
\* (the registry iterates its collectors in hash order)
ScrapeBegin ==
    /\ server = "up"
    /\ readFams = {}
    /\ scrapes < MaxScrapes
    /\ scrapes' = scrapes + 1
    /\ \E f \in FamilyNames :
          /\ gathered' = [gathered EXCEPT ![f] = metrics[f]]
          /\ readFams' = { f }
    /\ UNCHANGED << env, config, pc, cur, usage, fld, metrics, registered, client, sts,
                    exchanges, now, deadline, server, res, calls, lastOk, ticks,
                    latest, mainErr, lastOp, track, upd, apiCalls >>

\* registry.gather() collects one more family
ScrapeCollect ==
    /\ server = "up"
    /\ readFams # {}
    /\ \E f \in FamilyNames \ readFams :
          /\ gathered' = [gathered EXCEPT ![f] = metrics[f]]
          /\ readFams' = readFams \cup { f }
    /\ UNCHANGED << env, config, pc, cur, usage, fld, metrics, registered, client, sts,
                    exchanges, now, deadline, server, res, calls, lastOk, scrapes,
                    ticks, latest, mainErr, lastOp, track, upd, apiCalls >>

\* The gathered families are encoded and sent
ScrapeRespond ==
    /\ server = "up"
    /\ readFams = FamilyNames
    /\ readFams' = {}
    /\ gathered' = NoMetrics
    /\ UNCHANGED << env, config, pc, cur, usage, fld, metrics, registered, client, sts,
                    exchanges, now, deadline, server, res, calls, lastOk, scrapes,
                    ticks, latest, mainErr, lastOp, track, upd, apiCalls >>

Next ==
    \/ EnvOpenAI
    \/ CreateBedrockClient
    \/ AssumeRoleSend
    \/ AssumeRoleReturn
    \/ EnvAnthropic
    \/ MetricsNew
    \/ SpawnServer
    \/ IntervalTick
    \/ Call
    \/ Return
    \/ UpdateWithLabel
    \/ UpdateSet
    \/ Advance

\* main from its start on.  A scrape only reads the registry, so the steps of
\* main are the same with and without it; SpecScrape interleaves the two.
Spec == Init /\ [][Next]_vars

\* main has started up with both keys set and role assumption disabled, as
\* main.rs 198-204 configures it; the server is serving
InitServing ==
    /\ env = [openai |-> TRUE, anthropic |-> TRUE]
    /\ config = ShippedConfig
    /\ pc = "interval_tick"
    /\ cur = 1
    /\ usage = NoUsage
    /\ fld = 1
    /\ metrics = NoMetrics
    /\ registered = MetricNames
    /\ client = DefaultClient
    /\ sts = NoSts
    /\ exchanges = 0
    /\ now = 0
    /\ deadline = 0
    /\ server = "up"
    /\ readFams = {}
    /\ gathered = NoMetrics
    /\ res = Idle
    /\ calls = [p \in Providers |-> 0]
    /\ lastOk = [p \in Providers |-> NoUsage]
    /\ scrapes = 0
    /\ ticks = 0
    /\ latest = [k \in ApiKeys \cup ConfiguredPairs |-> NoUsage]
    /\ mainErr = ""
    /\ lastOp = [op |-> "none"]
    /\ track = NoTrack
    /\ upd = NoUpd
    /\ apiCalls = 0

NextScrape ==
    \/ IntervalTick
    \/ Call
    \/ Return
    \/ UpdateWithLabel
    \/ UpdateSet
    \/ Advance
    \/ ScrapeBegin
    \/ ScrapeCollect
    \/ ScrapeRespond

\* The polling loop with GET /metrics requests served concurrently
SpecScrape == InitServing /\ [][NextScrape]_vars

-----------------------------------------------------------------------------
(* Properties of the polling loop *)

\* The loop body has run to its end at least once and waits for the next tick
TickDone == pc = "interval_tick" /\ ticks >= 1

\* Provider number i of the loop body
ProviderAt(i) == Configured[i].provider

ModelAt(i) == Configured[i].model

\* C1: a step changes a cost, token or request gauge of a provider only as
\* part of LLMMetrics::update for that provider after its get_usage returned
\* Ok in the current tick, and update runs for no other provider; so a tick
\* in which the provider's get_usage returned Err changes none of its gauges.
C1_FailedPollKeepsGauges ==
    [][ /\ \A p \in Providers :
              GaugesOf(metrics', p) # GaugesOf(metrics, p)
              => /\ pc \in { "with_label", "set" }
                 /\ ProviderAt(cur) = p
                 /\ res[p] = "ok"
                 /\ res'[p] = "ok"
        /\ pc' \in { "with_label", "set" } => res'[ProviderAt(cur')] = "ok" ]_vars

\* C1 witness: openai published a non-zero usage in an earlier tick, its poll
\* failed in this tick, the tick is over and the earlier values are still there
C1_Witness ==
    /\ TickDone
    /\ res["openai"] = "err"
    /\ lastOk["openai"] # NoUsage
    /\ lastOk["openai"] # DefaultUsage
    /\ Holds(metrics, "openai", "gpt-4", lastOk["openai"])

\* C2: at the end of a tick in which provider X failed and the others
\* succeeded, every other provider was polled in the tick and its gauges hold
\* the values it just fetched, X's series are absent if X never succeeded and
\* hold the values of X's last success otherwise, and main has not left the
\* loop.
C2_FailureIsolated ==
    /\ (\E p \in Providers : res[p] = "err") => pc # "exit"
    /\ TickDone =>
          \A x \in 1..Len(Configured) :
             ( /\ res[ProviderAt(x)] = "err"
               /\ \A y \in 1..Len(Configured) : y # x => res[ProviderAt(y)] = "ok" )
             => /\ \A y \in 1..Len(Configured) :
                      y # x => /\ calls[ProviderAt(y)] = 1
                               /\ Holds(metrics, ProviderAt(y), ModelAt(y),
                                        lastOk[ProviderAt(y)])
                /\ IF lastOk[ProviderAt(x)] = NoUsage
                   THEN Absent(metrics, ProviderAt(x), ModelAt(x))
                   ELSE Holds(metrics, ProviderAt(x), ModelAt(x), lastOk[ProviderAt(x)])

\* C2 witness: the second tick is over; bedrock failed in it after succeeding
\* in the first, openai and anthropic succeeded with a non-zero usage
C2_Witness ==
    /\ TickDone
    /\ ticks = 2
    /\ res = [p \in Providers |-> IF p = "bedrock" THEN "err" ELSE "ok"]
    /\ lastOk["bedrock"] # NoUsage
    /\ lastOk["openai"] # DefaultUsage
    /\ Holds(metrics, "bedrock", "claude-2", lastOk["bedrock"])

\* C2 witness of the first-ever tick: anthropic failed and has no series
C2_WitnessAbsent ==
    /\ TickDone
    /\ ticks = 1
    /\ res = [p \in Providers |-> IF p = "anthropic" THEN "err" ELSE "ok"]
    /\ Absent(metrics, "anthropic", "claude-2")
    /\ ~Absent(metrics, "openai", "gpt-4")

-----------------------------------------------------------------------------
(* Properties of the credential lease and of the scheduling *)

\* Index of the cloud provider in the loop body
BedrockAt == CHOOSE i \in 1..Len(Configured) : ProviderAt(i) = "bedrock"

\* The AssumeRole exchange of startup has been sent and answered
Exchanged == config.enabled /\ exchanges >= 1 /\ pc # "assume_role_await"

\* Every part of the credential lease is in the answer
CompleteLease(r) ==
    /\ r.ok
    /\ r.credentials
    /\ r.access_key_id
    /\ r.secret_access_key
    /\ r.session_token
    /\ r.expiration

\* C6: with role assumption enabled, a bedrock fetch that starts while the
\* lease is valid sends no AssumeRole exchange, and a bedrock fetch that starts
\* after the lease's expires_at sends exactly one before it uses credentials.
C6_LeaseRenewedOnExpiry ==
    [][ ( /\ config.enabled
          /\ client.kind = "assumed-role"
          /\ client.has_expiry
          /\ pc = "call"
          /\ cur = BedrockAt
          /\ pc' = "await" )
        => IF now <= client.expires_at
           THEN exchanges' = exchanges
           ELSE exchanges' = exchanges + 1 ]_vars

\* C7: with role assumption enabled, once the exchange is answered there is a
\* client exactly when the answer was a success carrying the credentials
\* object, the access key, the secret key, the session token and the expiry;
\* in every other case main holds a ConfigError and no client.
C7_ClientOnlyFromCompleteLease ==
    Exchanged =>
        IF CompleteLease(sts)
        THEN client.kind = "assumed-role" /\ mainErr = ""
        ELSE client.kind = "none" /\ pc = "exit" /\ mainErr # ""

\* C8: when the AssumeRole exchange has failed and there is no unexpired
\* lease, main goes on: it has not returned, so that openai and anthropic are
\* polled and the metrics endpoint comes up and keeps serving.
C8_ExchangeFailureSkipsOnlyBedrock ==
    (Exchanged /\ ~sts.ok /\ client.kind = "none") => (pc # "exit" /\ mainErr = "")

\* C9: while one provider's get_usage has not returned, every other provider
\* of the tick has had its get_usage started or can have it started now, and
\* a tick whose deadline has come can begin.
C9_FetchesIndependent ==
    pc = "await" =>
        /\ \A j \in 1..Len(Configured) :
              j # cur => calls[ProviderAt(j)] >= 1 \/ ENABLED CallProvider(j)
        /\ (now >= deadline /\ ticks < MaxTicks) => ENABLED IntervalTick

-----------------------------------------------------------------------------
(* Properties of the scrape *)

\* What a finished gather() holds for a key is whole: no series, or the four
\* series of one usage
WholeRecord(m, provider, model) ==
    \/ Absent(m, provider, model)
    \/ \E u \in Usages : Holds(m, provider, model, u)

\* C3: whenever a registry.gather() has collected all three families, what it
\* holds for each configured (provider, model) key is either no series or the
\* cost, prompt, completion and request values of one LLMMetrics::update
\* call, under every interleaving of the gather with the polling loop.
C3_ScrapeSeesWholeRecords ==
    readFams = FamilyNames =>
        \A i \in 1..Len(Configured) : WholeRecord(gathered, ProviderAt(i), ModelAt(i))

-----------------------------------------------------------------------------
(* tracker.rs *)

\* What a wrapped OpenAI call may return: an error, or a response whose usage
\* block counts 1000 prompt and 1000 completion tokens
CallResults ==
    { [ok |-> FALSE, prompt_tokens |-> 0, completion_tokens |-> 0],
      [ok |-> TRUE, prompt_tokens |-> 1000, completion_tokens |-> 1000] }

\* extract_openai_usage(response): the token counts of the response
ExtractOpenAIUsage(response) ==
    [cost_usd |-> 0, prompt_tokens |-> response.prompt_tokens,
     completion_tokens |-> response.completion_tokens, request_count |-> 0]

\* calculate_openai_cost with a fault: the two gpt-4 rates change places
CalculateOpenAICostSwapped(model, u) ==
    IF model = "gpt-4" THEN u.prompt_tokens * 600 + u.completion_tokens * 300
    ELSE IF model = "gpt-3.5-turbo" THEN u.prompt_tokens * 15 + u.completion_tokens * 20
    ELSE 0

\* calculate_openai_cost, in units of 10^-7 USD:
\* (p * 0.03 + c * 0.06) / 1000 USD = p * 300 + c * 600 units, and
\* (p * 0.0015 + c * 0.002) / 1000 USD = p * 15 + c * 20 units
CalculateOpenAICost(model, u) ==
    IF model = "gpt-4" THEN u.prompt_tokens * 300 + u.completion_tokens * 600
    ELSE IF model = "gpt-3.5-turbo" THEN u.prompt_tokens * 15 + u.completion_tokens * 20
    ELSE 0

\* TrackWrites with a fault: the request gauge is raised by the usage's
\* request_count, which the extracted usage leaves at 0
TrackWritesRequestCount(model, u) ==
    << [vec |-> "cost", labels |-> << "openai", model >>,
        value |-> CalculateOpenAICost(model, u)],
       [vec |-> "tokens", labels |-> << "openai", model, "prompt" >>,
        value |-> u.prompt_tokens],
       [vec |-> "tokens", labels |-> << "openai", model, "completion" >>,
        value |-> u.completion_tokens],
       [vec |-> "requests", labels |-> << "openai", model >>, value |-> u.request_count] >>

\* The four gauge increments of track_openai_call for a response with usage u
TrackWrites(model, u) ==
    << [vec |-> "cost", labels |-> << "openai", model >>,
        value |-> CalculateOpenAICost(model, u)],
       [vec |-> "tokens", labels |-> << "openai", model, "prompt" >>,
        value |-> u.prompt_tokens],
       [vec |-> "tokens", labels |-> << "openai", model, "completion" >>,
        value |-> u.completion_tokens],
       [vec |-> "requests", labels |-> << "openai", model >>, value |-> 1] >>

\* What track_openai_call adds for a response with usage u, as one observation
Observation(model, u) ==
    [cost_usd |-> CalculateOpenAICost(model, u), prompt_tokens |-> u.prompt_tokens,
     completion_tokens |-> u.completion_tokens, request_count |-> 1]

\* The value of a series, 0 when the series does not exist
ValueOr0(vs) == IF vs = {} THEN 0 ELSE CHOOSE v \in vs : TRUE

\* LLMMetrics::new has run on a fresh registry; no call is in flight
InitApi ==
    /\ env = [openai |-> TRUE, anthropic |-> TRUE]
    /\ config = ShippedConfig
    /\ pc = "api"
    /\ cur = 1
    /\ usage = NoUsage
    /\ fld = 1
    /\ metrics = NoMetrics
    /\ registered = MetricNames
    /\ client = NoClient
    /\ sts = NoSts
    /\ exchanges = 0
    /\ now = 0
    /\ deadline = 0
    /\ server = "down"
    /\ readFams = {}
    /\ gathered = NoMetrics
    /\ res = Idle
    /\ calls = [p \in Providers |-> 0]
    /\ lastOk = [p \in Providers |-> NoUsage]
    /\ scrapes = 0
    /\ ticks = 0
    /\ latest = [k \in ApiKeys \cup ConfiguredPairs |-> NoUsage]
    /\ mainErr = ""
    /\ lastOp = [op |-> "none"]
    /\ track = NoTrack
    /\ upd = NoUpd
    /\ apiCalls = 0

\* LLMMetrics::update(provider, model, &u) is called through the API; prev
\* remembers the usage of the last update of the key that returned
UpdateCall(provider, model, u) ==
    /\ pc = "api"
    /\ upd.pc = "idle"
    /\ apiCalls < MaxCalls
    /\ apiCalls' = apiCalls + 1
    /\ upd' = [pc |-> "with_label", provider |-> provider, model |-> model, usage |-> u,
               prev |-> latest[<< provider, model >>], fld |-> 1]
    /\ UNCHANGED << env, config, pc, cur, usage, fld, metrics, registered, client, sts,
                    exchanges, now, deadline, server, readFams, gathered, res, calls,
                    lastOk, scrapes, ticks, latest, mainErr, lastOp, track >>

\* The write the update in flight is at
UpdateWrite == UpdateWrites(upd.provider, upd.model, upd.usage)[upd.fld]

\* One `with_label_values(...)` of the update in flight
UpdateCallWithLabel ==
    /\ pc = "api"
    /\ upd.pc = "with_label"
    /\ metrics' = ApplyWithLabel(metrics, UpdateWrite)
    /\ upd' = [upd EXCEPT !.pc = "set"]
    /\ UNCHANGED << env, config, pc, cur, usage, fld, registered, client, sts,
                    exchanges, now, deadline, server, readFams, gathered, res, calls,
                    lastOk, scrapes, ticks, latest, mainErr, lastOp, track, apiCalls >>

\* One `.set(...)` of the update in flight; after the last one update returns
UpdateCallSet ==
    /\ pc = "api"
    /\ upd.pc = "set"
    /\ metrics' = ApplySet(metrics, UpdateWrite)
    /\ IF upd.fld < 4
       THEN /\ upd' = [upd EXCEPT !.pc = "with_label", !.fld = upd.fld + 1]
            /\ latest' = latest
            /\ lastOp' = lastOp
       ELSE /\ upd' = NoUpd
            /\ latest' = [latest EXCEPT ![<< upd.provider, upd.model >>] = upd.usage]
            /\ lastOp' = [op |-> "update", provider |-> upd.provider, model |-> upd.model,
                          obs |-> upd.usage, prev |-> upd.prev]
    /\ UNCHANGED << env, config, pc, cur, usage, fld, registered, client, sts,
                    exchanges, now, deadline, server, readFams, gathered, res, calls,
                    lastOk, scrapes, ticks, mainErr, track, apiCalls >>

\* update called with any key
UpdateAny == \E k \in ApiKeys, u \in Usages : UpdateCall(k[1], k[2], u)

\* update called as the loop body of main calls it
UpdateConfigured ==
    \E i \in 1..Len(Configured), u \in Usages : UpdateCall(ProviderAt(i), ModelAt(i), u)

\* track_openai_call(model, call) is entered and suspends at call.await
TrackEnter ==
    /\ pc = "api"
    /\ track.pc = "idle"
    /\ apiCalls < MaxCalls
    /\ apiCalls' = apiCalls + 1
    /\ \E model \in TrackModels :
          track' = [NoTrack EXCEPT !.pc = "await", !.model = model]
    /\ UNCHANGED << env, config, pc, cur, usage, fld, metrics, registered, client, sts,
                    exchanges, now, deadline, server, readFams, gathered, res, calls,
                    lastOk, scrapes, ticks, latest, mainErr, lastOp, upd >>

\* call.await completes: an Err is returned at once, an Ok goes on to the
\* four increments
TrackResolve ==
    /\ track.pc = "await"
    /\ \E r \in CallResults :
          IF r.ok
          THEN /\ track' = [track EXCEPT !.pc = "with_label", !.result = r, !.fld = 1]
               /\ lastOp' = lastOp
          ELSE /\ track' = NoTrack
               /\ lastOp' = [op |-> "track_err", provider |-> "openai",
                             model |-> track.model, result |-> r, returned |-> r]
    /\ UNCHANGED << env, config, pc, cur, usage, fld, metrics, registered, client, sts,
                    exchanges, now, deadline, server, readFams, gathered, res, calls,
                    lastOk, scrapes, ticks, latest, mainErr, upd, apiCalls >>

\* The increment the call in flight is at
TrackWrite == TrackWrites(track.model, ExtractOpenAIUsage(track.result))[track.fld]

\* One `with_label_values(...)` of track_openai_call
TrackWithLabel ==
    /\ track.pc = "with_label"
    /\ metrics' = ApplyWithLabel(metrics, TrackWrite)
    /\ track' = [track EXCEPT !.pc = "inc"]
    /\ UNCHANGED << env, config, pc, cur, usage, fld, registered, client, sts,
                    exchanges, now, deadline, server, readFams, gathered, res, calls,
                    lastOk, scrapes, ticks, latest, mainErr, lastOp, upd, apiCalls >>

\* One `.inc_by(...)` / `.inc(...)` of track_openai_call; after the last one
\* the call returns its result
TrackInc ==
    /\ track.pc = "inc"
    /\ metrics' = ApplyInc(metrics, TrackWrite)
    /\ IF track.fld < 4
       THEN /\ track' = [track EXCEPT !.pc = "with_label", !.fld = track.fld + 1]
            /\ lastOp' = lastOp
       ELSE /\ track' = NoTrack
            /\ lastOp' = [op |-> "track", provider |-> "openai", model |-> track.model,
                          obs |-> Observation(track.model, ExtractOpenAIUsage(track.result)),
                          result |-> track.result, returned |-> track.result]
    /\ UNCHANGED << env, config, pc, cur, usage, fld, registered, client, sts,
                    exchanges, now, deadline, server, readFams, gathered, res, calls,
                    lastOk, scrapes, ticks, latest, mainErr, upd, apiCalls >>

\* LLMTracker::track_openai_call(model, call), step by step; calls of
\* LLMMetrics::update may run while it is suspended or between its writes
TrackOpenAICall ==
    \/ TrackEnter
    \/ TrackResolve
    \/ TrackWithLabel
    \/ TrackInc

\* LLMMetrics::new called, on a thread of its own, on the registry that
\* already holds the three vectors: a success hands back fresh vectors, a
\* refusal panics. The panic of the unwrap unwinds the calling thread only:
\* an update or a tracked call in flight on another thread goes on, so the
\* call is taken whatever upd and track are at and leaves both alone.
NewCall ==
    /\ pc = "api"
    /\ LET r == NewMetrics(registered)
       IN /\ registered' = r.registered
          /\ metrics' = IF r.ok THEN NoMetrics ELSE metrics
          /\ lastOp' = [op |-> "new", panicked |-> ~r.ok]
    /\ UNCHANGED << env, config, pc, cur, usage, fld, client, sts, exchanges, now,
                    deadline, server, readFams, gathered, res, calls, lastOk, scrapes,
                    ticks, latest, mainErr, track, upd, apiCalls >>

\* Largest small token count tried, next to the 1000 of the worked example
MaxTokens == 5

\* Token counts handed to calculate_openai_cost
TokenCounts == (0..MaxTokens) \cup {1000}

\* One call of calculate_openai_cost(model, &usage)
CostCall ==
    /\ pc = "api"
    /\ \E model \in TrackModels, p \in TokenCounts, c \in TokenCounts :
          lastOp' = [op |-> "cost", model |-> model, prompt_tokens |-> p,
                     completion_tokens |-> c,
                     cost |-> CalculateOpenAICost(model,
                                 [cost_usd |-> 0, prompt_tokens |-> p,
                                  completion_tokens |-> c, request_count |-> 0])]
    /\ UNCHANGED << env, config, pc, cur, usage, fld, metrics, registered, client, sts,
                    exchanges, now, deadline, server, readFams, gathered, res, calls,
                    lastOk, scrapes, ticks, latest, mainErr, track, upd, apiCalls >>

\* Bodies the usage endpoint may answer with: total_usage in cents
UsageBodies == { [total_usage |-> c] : c \in {0, 1, 100, 5000, 10000} }

\* Bodies the subscription endpoint may answer with
SubscriptionBodies ==
    [hard_limit_usd : {0, 100, 120}, has_payment_method : BOOLEAN]

\* OpenAIMonitor::get_usage_data: the body decoded into OpenAIUsageResponse,
\* the number as it came
GetUsageData(body) == [total_usage |-> body.total_usage]

\* OpenAIMonitor::get_subscription_data: the body decoded into
\* OpenAISubscriptionResponse
GetSubscriptionData(body) ==
    [hard_limit_usd |-> body.hard_limit_usd,
     has_payment_method |-> body.has_payment_method]

\* OpenAIMonitor::get_usage of main.rs: Ok(LLMUsage::default()), whatever the
\* endpoints hold
OpenAIGetUsage(usageBody, subscriptionBody) == DefaultUsage

\* The OpenAI provider asked for its usage while the endpoints answer with
\* the two bodies
UsageDataCall ==
    /\ pc = "api"
    /\ \E ub \in UsageBodies, sb \in SubscriptionBodies :
          lastOp' = [op |-> "get_usage_data", cents |-> ub.total_usage,
                     subscription |-> GetSubscriptionData(sb),
                     total_usage |-> GetUsageData(ub).total_usage,
                     usage |-> OpenAIGetUsage(ub, sb)]
    /\ UNCHANGED << env, config, pc, cur, usage, fld, metrics, registered, client, sts,
                    exchanges, now, deadline, server, readFams, gathered, res, calls,
                    lastOk, scrapes, ticks, latest, mainErr, track, upd, apiCalls >>

NextMetrics ==
    \/ UpdateAny
    \/ UpdateCallWithLabel
    \/ UpdateCallSet

\* LLMMetrics used through new and update alone, by one caller
SpecMetrics == InitApi /\ [][NextMetrics]_vars

NextTracker ==
    \/ UpdateConfigured
    \/ UpdateCallWithLabel
    \/ UpdateCallSet
    \/ TrackOpenAICall

\* The registry written by the loop body's updates and by the tracker
SpecTracker == InitApi /\ [][NextTracker]_vars

-----------------------------------------------------------------------------
(* Properties of the registry API *)

\* C4: after LLMMetrics::new and any number of update calls over any keys,
\* each key that was updated has exactly one cost series, one request series
\* and one token series per kind, holding the fields of the most recent
\* update for the key, and a key never updated has no series.  A key is
\* looked at while no update of it is in flight.
C4_OneSeriesPerKeyLatest ==
    /\ \A f \in FamilyNames : \A c \in metrics[f] :
          Cardinality(ChildrenAt(metrics[f], c.labels)) = 1
    /\ \A k \in ApiKeys :
          (upd.pc = "idle" \/ k # << upd.provider, upd.model >>) =>
              IF latest[k] = NoUsage THEN Absent(metrics, k[1], k[2])
              ELSE Holds(metrics, k[1], k[2], latest[k])

\* C4 witness: a key holding a non-zero usage was just updated again with
\* another usage, while a second key has series of its own
C4_Witness ==
    /\ lastOp.op = "update"
    /\ upd.pc = "idle"
    /\ lastOp.prev # NoUsage
    /\ lastOp.prev.cost_usd # 0
    /\ lastOp.prev # lastOp.obs
    /\ Holds(metrics, lastOp.provider, lastOp.model, lastOp.obs)
    /\ Cardinality(LabelPairs(metrics)) >= 2

\* The key the last API call wrote
LastKeySeries == SeriesOf(metrics, lastOp.provider, lastOp.model)

\* The series of a key the n-th write of update and the n-th increment of
\* track_openai_call go to
TrackSeries == << "cost", "prompt", "completion", "requests" >>

\* The amount the n-th write carries, for observation obs
TrackAmount(obs, n) ==
    << obs.cost_usd, obs.prompt_tokens, obs.completion_tokens, obs.request_count >>[n]

\* The observation of the track_openai_call in flight
TrackObs == Observation(track.model, ExtractOpenAIUsage(track.result))

\* The step is one set of the update in flight
SetStep == upd.pc = "set" /\ upd' # upd

\* The step is one increment of the track_openai_call in flight
IncStep == track.pc = "inc" /\ track' # track

\* C5 as claimed: after every gauge write, of update and of track_openai_call
\* alike, the gauge written holds the observation just written, whatever it
\* held before.
C5_EveryWriteOverwrites ==
    [][ /\ SetStep =>
              SeriesOf(metrics', upd.provider, upd.model)[TrackSeries[upd.fld]]
                  = { TrackAmount(upd.usage, upd.fld) }
        /\ IncStep =>
              SeriesOf(metrics', "openai", track.model)[TrackSeries[track.fld]]
                  = { TrackAmount(TrackObs, track.fld) }
      ]_vars

\* track_openai_call has returned after adding to a key that an update had
\* set to a non-zero usage: the key holds the sum, not the observation
C5_Witness ==
    /\ lastOp.op = "track"
    /\ lastOp.model = "gpt-4"
    /\ LastKeySeries.cost = { 900004 }
    /\ LastKeySeries.requests = { 4 }

\* The four increments of a tracked call fell between the first and the
\* second write of an update: both have returned, and the key holds the
\* update's cost plus the call's and the update's other three values
C5_WitnessInsideUpdate ==
    /\ upd.pc = "idle"
    /\ track.pc = "idle"
    /\ lastOp.op = "update"
    /\ SeriesOf(metrics, "openai", "gpt-4") =
          [cost |-> { 900004 }, prompt |-> { 1 }, completion |-> { 2 }, requests |-> { 3 }]

\* C10: the (provider, model) pairs the registry has series under are among
\* the three pairs of the loop body, whatever writes the registry.
C10_LabelPairsFixed == LabelPairs(metrics) \subseteq ConfiguredPairs

NextRegister ==
    \/ UpdateAny
    \/ UpdateCallWithLabel
    \/ UpdateCallSet
    \/ NewCall

\* A registry in use on which LLMMetrics::new is called a second time
SpecRegister == InitApi /\ [][NextRegister]_vars

\* The step is a call of LLMMetrics::new on the registry that holds the set
NewStep == lastOp' # lastOp /\ lastOp'.op = "new"

\* C11: a second LLMMetrics::new on a registry that already holds the metric
\* set ends in a panic of the calling thread, and across the call the
\* registry's registered names and every gauge value are what they were
\* before it, whether or not an update or a tracked call is in flight on
\* another thread.
C11_SecondNewRejected ==
    [][ NewStep =>
            /\ lastOp'.panicked
            /\ registered' = registered
            /\ registered' = MetricNames
            /\ metrics' = metrics
      ]_vars

\* A second new was refused on a registry whose gauges hold values
C11_Witness ==
    /\ lastOp.op = "new"
    /\ lastOp.panicked
    /\ registered = MetricNames
    /\ \E k \in ApiKeys : ~Absent(metrics, k[1], k[2])

\* A second new was refused while an update had written its first gauge and
\* not yet its second
C11_WitnessInFlight ==
    /\ lastOp.op = "new"
    /\ lastOp.panicked
    /\ upd.pc = "with_label"
    /\ upd.fld = 2

\* The refused new stops no other thread: an update in flight can take its
\* next step
InFlightUpdateProceeds ==
    (lastOp.op = "new" /\ upd.pc # "idle") =>
        ENABLED (UpdateCallWithLabel \/ UpdateCallSet)

\* A required API key is absent from the environment
KeyMissing == ~env.openai \/ ~env.anthropic

\* main is inside its polling loop
InLoop == pc \in {"interval_tick", "call", "await", "with_label", "set"}

\* C12: when OPENAI_API_KEY or ANTHROPIC_API_KEY is absent, main runs on to
\* its end, the end is a ConfigError whose message names the absent variable
\* (the first one looked up; for ANTHROPIC_API_KEY, once create_bedrock_client
\* has returned its client), and the loop never begins: no tick, no call of a
\* provider, no gauge written.
C12_MissingKeyEndsBeforeLoop ==
    KeyMissing =>
        /\ pc = "exit" \/ ENABLED Next
        /\ (pc = "exit" /\ ~env.openai) =>
               mainErr = "Configuration error: OPENAI_API_KEY not set"
        /\ (pc = "exit" /\ env.openai /\ client # NoClient) =>
               mainErr = "Configuration error: ANTHROPIC_API_KEY not set"
        /\ ~InLoop
        /\ ticks = 0
        /\ \A p \in Providers : calls[p] = 0 /\ res[p] = "none"
        /\ metrics = NoMetrics
        /\ registered = {}

\* main ended on the absent ANTHROPIC_API_KEY, after the client was built
C12_Witness ==
    /\ env.openai
    /\ ~env.anthropic
    /\ pc = "exit"
    /\ client = DefaultClient
    /\ mainErr = "Configuration error: ANTHROPIC_API_KEY not set"
    /\ ticks = 0

\* main ended on the absent OPENAI_API_KEY
C12_WitnessOpenAI ==
    /\ ~env.openai
    /\ pc = "exit"
    /\ mainErr = "Configuration error: OPENAI_API_KEY not set"

NextFunctions ==
    \/ CostCall
    \/ UsageDataCall

\* The pure functions of the tracker and of the OpenAI provider, applied to
\* inputs drawn from bounded sets
SpecFunctions == InitApi /\ [][NextFunctions]_vars

\* The models of the rate table
RateTable == {"gpt-4", "gpt-3.5-turbo"}

\* The rate table per 1000 tokens, in units of 10^-7 USD: 0.03 and 0.06 USD
\* for gpt-4, 0.0015 and 0.002 USD for gpt-3.5-turbo
RatePer1k(model) ==
    IF model = "gpt-4" THEN [prompt |-> 300000, completion |-> 600000]
    ELSE [prompt |-> 15000, completion |-> 20000]

\* C13: the derived cost is (prompt_tokens * prompt rate per 1k +
\* completion_tokens * completion rate per 1k) / 1000 for a model of the rate
\* table and 0 for any other model; 1000 + 1000 tokens at 0.03 / 0.06 per 1k
\* cost 0.09 USD (900000 units).
C13_CostFromRateTable ==
    lastOp.op = "cost" =>
        /\ lastOp.model \in RateTable =>
               lastOp.cost * 1000 =
                   lastOp.prompt_tokens * RatePer1k(lastOp.model).prompt
                   + lastOp.completion_tokens * RatePer1k(lastOp.model).completion
        /\ lastOp.model \notin RateTable => lastOp.cost = 0
        /\ ( /\ lastOp.model = "gpt-4"
             /\ lastOp.prompt_tokens = 1000
             /\ lastOp.completion_tokens = 1000 ) => lastOp.cost = 900000

\* The worked example was computed
C13_Witness ==
    /\ lastOp.op = "cost"
    /\ lastOp.model = "gpt-4"
    /\ lastOp.prompt_tokens = 1000
    /\ lastOp.completion_tokens = 1000
    /\ lastOp.cost = 900000

\* A model outside the rate table was priced, with tokens used
C13_WitnessUnknown ==
    /\ lastOp.op = "cost"
    /\ lastOp.model = "davinci"
    /\ lastOp.prompt_tokens = 1000
    /\ lastOp.cost = 0

\* 1 cent in the unit of cost_usd, 10^-7 USD
UnitsPerCent == 100000

\* C14: for the direct-API provider, a reported total usage of c cents gives
\* a usage value of c / 100 and a usage record with cost_usd = c / 100 that
\* carries a remaining balance of hard_limit_usd - c / 100 exactly when a
\* payment method is on file.
C14_CentsToDollarsWithBalance ==
    lastOp.op = "get_usage_data" =>
        /\ lastOp.total_usage * 100 = lastOp.cents
        /\ lastOp.usage.cost_usd = lastOp.cents * UnitsPerCent
        /\ lastOp.subscription.has_payment_method <=>
               "remaining_balance" \in DOMAIN lastOp.usage
        /\ lastOp.subscription.has_payment_method =>
               lastOp.usage.remaining_balance =
                   lastOp.subscription.hard_limit_usd * 100 * UnitsPerCent
                   - lastOp.cents * UnitsPerCent

\* The key of the i-th configured provider
KeyAt(i) == << ProviderAt(i), ModelAt(i) >>

\* The gauges of registry m whose (provider, model) labels are not key
OthersOf(m, key) ==
    [f \in FamilyNames |-> { c \in m[f] : << c.labels[1], c.labels[2] >> # key }]

\* C15: the configured providers publish under pairwise distinct provider
\* labels, and a step that changes the registry is a step of
\* LLMMetrics::update for the provider being published: it changes gauges of
\* that provider's key alone and leaves the gauges of every other key as they
\* were, so no key has two writers.
C15_UpdateWritesOwnKeyOnly ==
    [][ /\ \A i, j \in 1..Len(Configured) : i # j => ProviderAt(i) # ProviderAt(j)
        /\ metrics' # metrics =>
              /\ pc \in {"with_label", "set"}
              /\ OthersOf(metrics', KeyAt(cur)) = OthersOf(metrics, KeyAt(cur))
              /\ \A i \in 1..Len(Configured) :
                    SeriesOf(metrics', ProviderAt(i), ModelAt(i))
                        # SeriesOf(metrics, ProviderAt(i), ModelAt(i)) => i = cur
      ]_vars

\* In the second tick bedrock was published over its own values while
\* anthropic, under the same model label, holds different ones
C15_Witness ==
    /\ TickDone
    /\ ticks = 2
    /\ res["bedrock"] = "ok"
    /\ Holds(metrics, "bedrock", "claude-2", DefaultUsage)
    /\ ~Absent(metrics, "anthropic", "claude-2")
    /\ ~Holds(metrics, "anthropic", "claude-2", DefaultUsage)

\* create_bedrock_client has been called and has returned
BedrockClientReturned ==
    env.openai /\ pc \notin {"env_openai", "create_bedrock_client", "assume_role", "assume_role_await"}

\* C16: with assume_role.enabled = false, whatever role_arn and session_name
\* are, create_bedrock_client sends no AssumeRole exchange and receives no
\* answer, and the client it returns is the one of the ambient default
\* credentials.
C16_DisabledRoleUsesDefaultCredentials ==
    ~config.enabled =>
        /\ exchanges = 0
        /\ sts = NoSts
        /\ pc \notin {"assume_role", "assume_role_await"}
        /\ client = IF BedrockClientReturned THEN DefaultClient ELSE NoClient
        /\ (pc = "exit" /\ env.openai) =>
               mainErr = "Configuration error: ANTHROPIC_API_KEY not set"

\* The disabled branch returned its client although a role and a session
\* name are configured
C16_Witness ==
    /\ ~config.enabled
    /\ config.role_arn # ""
    /\ config.session_name # ""
    /\ BedrockClientReturned
    /\ client = DefaultClient
    /\ exchanges = 0

\* Registry content m has, for every configured key, a shape the registry
\* passes through: update creates the series of a key in the order cost,
\* prompt tokens, completion tokens, requests, so a series is there only if
\* the ones before it are
RegistryShaped(m) ==
    \A i \in 1..Len(Configured) :
        LET s == SeriesOf(m, ProviderAt(i), ModelAt(i))
        IN /\ s.requests # {} => s.completion # {}
           /\ s.completion # {} => s.prompt # {}
           /\ s.prompt # {} => s.cost # {}

\* No tick has run to its end yet
NoTickCompleted == ticks = 0 \/ (ticks = 1 /\ pc # "interval_tick")

\* C17: a scrape that has begun can always run to its response, whatever the
\* poller is doing and whatever the providers returned; what it returns is
\* content the registry held, and it is the content written by the latest
\* completed tick: nothing at all while no tick has completed.
C17_ScrapeReturnsLatestTick ==
    /\ (server = "up" /\ readFams # {} /\ readFams # FamilyNames) => ENABLED ScrapeCollect
    /\ (server = "up" /\ readFams = FamilyNames) => ENABLED ScrapeRespond
    /\ readFams = FamilyNames =>
          /\ RegistryShaped(gathered)
          /\ NoTickCompleted => gathered = NoMetrics

\* The registry itself always has such a shape
RegistryIsShaped == RegistryShaped(metrics)

\* The loop body is between the invocation of provider number i and the end
\* of its publication
BeingPolled(i) == cur = i /\ pc \in {"await", "with_label", "set"}

\* C18: within a tick get_usage of each configured provider is invoked at
\* most once, in the order of the loop body, whatever the calls before it
\* returned; at the end of the tick each has been invoked exactly once and has
\* returned Ok or Err, a failed one without a second call; the count starts
\* again with the next tick.
C18_OneCallPerProviderPerTick ==
    /\ \A p \in Providers : calls[p] <= 1
    /\ (InLoop /\ pc # "interval_tick") =>
          \A i \in 1..Len(Configured) :
              calls[ProviderAt(i)] = IF i < cur \/ BeingPolled(i) THEN 1 ELSE 0
    /\ TickDone =>
          \A p \in Providers : calls[p] = 1 /\ res[p] \in {"ok", "err"}

\* The second tick has ended; openai failed in both ticks and was invoked
\* once in the second, as was bedrock after it
C18_Witness ==
    /\ TickDone
    /\ ticks = 2
    /\ res["openai"] = "err"
    /\ lastOk["openai"] = NoUsage
    /\ calls["openai"] = 1
    /\ calls["bedrock"] = 1
    /\ res["bedrock"] = "ok"

\* C19: track_openai_call returns the wrapped call's result as it is; when
\* the result is an error the call changes no gauge, and when it is Ok the
\* call changes only gauges labelled "openai" with the given model and raises
\* that key's request gauge by exactly 1.
C19_TrackReturnsResultWritesOwnKey ==
    [][ track' # track =>
          /\ track.pc \in {"idle", "await"} => metrics' = metrics
          /\ (track.pc = "await" /\ track'.pc = "idle") =>
                /\ lastOp'.op = "track_err"
                /\ ~lastOp'.result.ok
                /\ lastOp'.returned = lastOp'.result
          /\ (track.pc = "inc" /\ track'.pc = "idle") =>
                /\ lastOp'.op = "track"
                /\ lastOp'.result.ok
                /\ lastOp'.result = track.result
                /\ lastOp'.returned = lastOp'.result
          /\ track.pc \in {"with_label", "inc"} =>
                /\ OthersOf(metrics', << "openai", track.model >>)
                       = OthersOf(metrics, << "openai", track.model >>)
                /\ ValueOr0(SeriesOf(metrics', "openai", track.model).requests)
                       = ValueOr0(SeriesOf(metrics, "openai", track.model).requests)
                         + (IF track.pc = "inc" /\ track.fld = 4 THEN 1 ELSE 0)
      ]_vars

\* Two Ok calls were tracked on a key, beside another provider's published
\* values
C19_Witness ==
    /\ lastOp.op = "track"
    /\ lastOp.result.ok
    /\ lastOp.model = "gpt-3.5-turbo"
    /\ SeriesOf(metrics, "openai", "gpt-3.5-turbo").cost = { 70000 }
    /\ SeriesOf(metrics, "openai", "gpt-3.5-turbo").requests = { 2 }
    /\ ~Absent(metrics, "bedrock", "claude-2")

\* A failed call was tracked on a key that holds values
C19_WitnessErr ==
    /\ lastOp.op = "track_err"
    /\ ~lastOp.returned.ok
    /\ SeriesOf(metrics, "openai", lastOp.model).requests = { 1 }

\* A whole update ran between the increments of a tracked call: the call is
\* at its last increment and the key holds the update's values
C19_WitnessInterleaved ==
    /\ track.pc = "inc"
    /\ track.fld = 4
    /\ track.model = "gpt-4"
    /\ lastOp.op = "update"
    /\ SeriesOf(metrics, "openai", "gpt-4") =
          [cost |-> { 4 }, prompt |-> { 1 }, completion |-> { 2 }, requests |-> { 3 }]

\* A whole update ran while a tracked call was suspended at call.await, and
\* the call then added to the update's values
C19_WitnessSuspended ==
    /\ lastOp.op = "track"
    /\ lastOp.model = "gpt-4"
    /\ SeriesOf(metrics, "openai", "gpt-4") =
          [cost |-> { 900004 }, prompt |-> { 1001 }, completion |-> { 1002 },
           requests |-> { 4 }]

====
